---- MODULE Spec2Model ----
(***************************************************************************)
(* Model of the training / evaluation scripts of the emotion-recognition   *)
(* thesis repository:                                                      *)
(*   scripts/train_test.py     train(), test(), _get_model,                *)
(*                             _get_dataset_split                          *)
(*   scripts/utils.py          split_dataset, get_model                    *)
(*   scripts/wav2vec_models.py the wav2vec model variants and the staged   *)
(*                             optimizer of Wav2VecCLSPaperFinetuning      *)
(*                                                                         *)
(* Numbers that are floats in the code are kept exact: a split fraction is *)
(* a pair <<num, den>>, a loss average is a pair <<sum, count>>.           *)
(***************************************************************************)
EXTENDS Integers, Sequences, FiniteSets, TLC

\* ------------------------------------------------------------------ bounds
\* Largest dataset length of the split-engine specification.
MaxLen == 5
\* Largest explicit seed handed to torch.Generator().manual_seed.
MaxSeed == 1
\* Largest initial state of the process-wide default generator.
MaxDefaultSeed == 0
\* Number of split calls of one behaviour of the split-engine specification.
MaxCalls == 3

\* Python's None; an optional value v is <<v>>.
None == << >>

Some(v) == << v >>

\* Split fractions <<num, den>>, all exactly representable as floats except
\* 4/5, whose products with an integer are never within rounding distance of
\* a tie.
Fractions == { <<0, 1>>, <<1, 4>>, <<1, 2>>, <<3, 4>>, <<4, 5>>, <<1, 1>> }

Seeds == 0 .. MaxSeed

OptSeeds == { None } \cup { Some(s) : s \in Seeds }

\* ------------------------------------------------------------ split engine
\* Python round(n * f): round half to even.
RoundFloor(n, f) == (n * f[1]) \div f[2]

RoundPy(n, f) ==
    LET q == (n * f[1]) \div f[2]
        r == (n * f[1]) % f[2]
    IN  IF 2 * r < f[2] THEN q
        ELSE IF 2 * r > f[2] THEN q + 1
        ELSE IF q % 2 = 0 THEN q ELSE q + 1

\* One draw of a generator: the successor state, which is also the value
\* drawn (a small linear congruential generator stands for the Mersenne
\* twister of torch.Generator).
NextRandom(g) == (g * 75 + 74) % 65537

\* torch.Generator().manual_seed(seed)
manual_seed(seed) == seed

Swap(r, a, b) == [r EXCEPT ![a] = r[b], ![b] = r[a]]

\* torch.randperm(n, generator): for i in 0..n-2, z = random() % (n - i),
\* swap r[i] and r[i + z].  r is 1-based here, i is the 0-based loop index.
RECURSIVE RandpermFrom(_, _, _)
RandpermFrom(r, i, g) ==
    IF i >= Len(r) - 1 THEN [perm |-> r, gen |-> g]
    ELSE LET g2 == NextRandom(g)
             z  == g2 % (Len(r) - i)
         IN  RandpermFrom(Swap(r, i + 1, i + z + 1), i + 1, g2)

Randperm(n, g) == RandpermFrom([k \in 1 .. n |-> k - 1], 0, g)

\* The generator a split draws from: a fresh one seeded with `seed`, or the
\* process-wide default generator when seed is None.
SplitGeneratorShared(seed, default) == default

SplitGenerator(seed, default) ==
    IF seed # None THEN manual_seed(seed[1]) ELSE default

\* torch.utils.data.random_split(data, [l1, l2], generator): the two
\* consecutive slices of a random permutation of data.  data is the sequence
\* of the underlying dataset indices (a Subset of a Subset keeps its parent's
\* indices).  gen is the state of the default generator after the call.
random_split(data, l1, seed, default) ==
    LET n  == Len(data)
        rp == Randperm(n, SplitGenerator(seed, default))
    IN  [ train |-> [k \in 1 .. l1 |-> data[rp.perm[k] + 1]],
          test  |-> [k \in 1 .. (n - l1) |-> data[rp.perm[l1 + k] + 1]],
          gen   |-> IF seed # None THEN default ELSE rp.gen ]

\* utils.split_dataset(dataset, split_size, seed)
split_dataset(dataset, split_size, seed, default) ==
    random_split(dataset, RoundPy(Len(dataset), split_size), seed, default)

\* train_test._get_dataset_split(data, part, split_size, seed); the caller
\* takes the part it asked for.
get_dataset_split(data, split_size, seed, default) ==
    random_split(data, RoundPy(Len(data), split_size), seed, default)

\* The indices 0..n-1 of a dataset of n items.
Indices(n) == [k \in 1 .. n |-> k - 1]

Range(s) == { s[k] : k \in 1 .. Len(s) }

\* ------------------------------------------------------------------ state
VARIABLES
    default_generator,  \* state of torch's process-wide default generator
    sp_ref,             \* split engine: the arguments [n, f, seed] under watch
    sp_last,            \* split engine: None or Some(the last call and its result)
    sp_refResults,      \* split engine: results returned for the watched arguments
    sp_hist,            \* split engine: kinds of the calls made so far
    sc_T,               \* staged optimizer: self.num_epochs
    sc_batches,         \* staged optimizer: batches per epoch
    sc_pos,             \* staged optimizer: [epoch, batch, idx] of the next optimizer_step call
    sc_lr,              \* staged optimizer: pg['lr'] of optimizer 0 and 1, as <<num, den>> of defaults["lr"]
    sc_steps,           \* staged optimizer: optimizer.step() calls applied by optimizer 0 and 1
    sc_params,          \* staged optimizer: updates received by each parameter tensor
    sc_trace,           \* staged optimizer: the optimizer_step calls made so far
    md_cfg,             \* model factory: cfg.model.name, .option, .finetuning, cfg.dataset.number_of_classes
    md_pc,              \* model factory: "config", "built" or "failed"
    md_model,           \* model factory: None or Some(the model get_model returned)
    md_last,            \* model factory: the last call made on the model
    tr_conf,            \* train/test: the configuration file
    tr_fn,              \* train/test: the entry point running, "none", "train" or "test"
    tr_pc,              \* train/test: the position in the entry point
    tr_runs,            \* train/test: entry points called so far
    tr_error,           \* train/test: None or Some(the exception that ended the run)
    tr_dataset,         \* train/test: None or Some(len(dataset))
    tr_train_dataset,   \* train(): the seeded train subset (dataset indices)
    tr_test_dataset,    \* test(): the seeded test subset (dataset indices)
    tr_model,           \* train/test: None or Some([class, ref]), ref the storage of its parameters
    tr_heap,            \* train/test: parameter storages; a value is the file loaded plus the optimizer steps taken
    tr_epoch,           \* train(): epoch
    tr_i,               \* train/test: index of the next batch of the running loop
    tr_train_split,     \* train(): this epoch's train split
    tr_val_split,       \* train(): this epoch's validation split
    tr_train_loss,      \* train(): train_loss, as <<sum of batch losses, len(train_loader)>>
    tr_correct,         \* train/test: correct
    tr_total,           \* train/test: total
    tr_val_loss,        \* train/test: val_loss (loss in test()), as <<sum of batch losses, len(loader)>>
    tr_best_model,      \* train(): best_model, None or Some([State_Dict, Epoch, Loss, Accuracy])
    tr_files,           \* checkpoint files by name: None or Some(parameters saved)
    tr_logs,            \* metrics log: the <<tag, step>> of the scalars written
    tr_hist,            \* train(): per completed epoch of this run, its validation loss, accuracy and end parameters
    tr_steps,           \* train(): optimizer.step() calls of this run
    tr_records,         \* train(): times best_model was assigned in this run
    tr_writes,          \* train(): files written by this run
    tr_train_seen,      \* train(): dataset indices of every train and validation split of the last run
    tr_test_seen,       \* test(): dataset indices of the test split of the last run
    tr_files_before,    \* train/test: the checkpoint files as they were when the running entry point was called
    tr_wloss            \* train(): this epoch's sums of (batch size x batch loss), [train, val]

splitVars == << sp_ref, sp_last, sp_refResults, sp_hist >>

schedVars == << sc_T, sc_batches, sc_pos, sc_lr, sc_steps, sc_params, sc_trace >>

modelVars == << md_cfg, md_pc, md_model, md_last >>

trainLocals ==
    << tr_dataset, tr_train_dataset, tr_test_dataset, tr_model, tr_epoch, tr_i,
       tr_train_split, tr_val_split, tr_train_loss, tr_correct, tr_total,
       tr_val_loss, tr_best_model >>

trainGhosts ==
    << tr_hist, tr_steps, tr_records, tr_writes, tr_train_seen, tr_test_seen,
       tr_files_before, tr_wloss >>

trainVars ==
    << tr_conf, tr_fn, tr_pc, tr_runs, tr_error, tr_heap, tr_files, tr_logs,
       trainLocals, trainGhosts >>

vars == << default_generator, splitVars, schedVars, modelVars, trainVars >>

\* ------------------------------------ Wav2VecCLSPaperFinetuning optimizers
\* Largest self.num_epochs of the staged-optimizer specification.
MaxSchedEpochs == 20
\* Largest number of batches per epoch of the staged-optimizer specification.
MaxSchedBatches == 2

\* The parameter tensors of the model, by sub-module.
ParamNames == { "feature_extractor", "feature_projection", "encoder", "linear_layer" }

\* configure_optimizers: the parameters each of the two optimizers holds.
OptimizerParams(idx) ==
    IF idx = 0 THEN { "linear_layer" }
    ELSE { "feature_projection", "encoder", "linear_layer" }

\* The guard of optimizer_step: 0.3 >= epoch / num_epochs for optimizer 0,
\* 0.3 < epoch / num_epochs for optimizer 1.
StepAppliedBoth(epoch, T, idx) == TRUE

StepAppliedSwapped(epoch, T, idx) ==
    \/ (3 * T >= 10 * epoch /\ idx = 1)
    \/ (3 * T < 10 * epoch /\ idx = 0)

StepApplied(epoch, T, idx) ==
    \/ (3 * T >= 10 * epoch /\ idx = 0)
    \/ (3 * T < 10 * epoch /\ idx = 1)

\* min(1., a / b) for b > 0
Min1(a, b) == IF a >= b THEN << 1, 1 >> ELSE << a, b >>

\* The learning rate optimizer_step leaves in the optimizer's param groups,
\* as a multiple <<num, den>> of optimizer.defaults["lr"]; lr is the rate
\* the groups held before.
ScheduledLrDecayToZero(epoch, T, lr) ==
    IF epoch < T \div 10
    THEN Min1(epoch + 1, T \div 10)
    ELSE IF epoch >= T \div 2
    THEN Min1((T - 1) - epoch, (T - 1) - T \div 2)
    ELSE lr

ScheduledLrNoWarmup(epoch, T, lr) ==
    IF epoch < T \div 10
    THEN lr
    ELSE IF epoch >= T \div 2
    THEN Min1((T - T \div 2) - (epoch - T \div 2), T - T \div 2)
    ELSE lr

ScheduledLrWarmupFromZero(epoch, T, lr) ==
    IF epoch < T \div 10
    THEN Min1(epoch, T \div 10)
    ELSE IF epoch >= T \div 2
    THEN Min1((T - T \div 2) - (epoch - T \div 2), T - T \div 2)
    ELSE lr

ScheduledLr(epoch, T, lr) ==
    IF epoch < T \div 10
    THEN Min1(epoch + 1, T \div 10)
    ELSE IF epoch >= T \div 2
    THEN Min1((T - T \div 2) - (epoch - T \div 2), T - T \div 2)
    ELSE lr

SchedIdle ==
    /\ sc_T = 0
    /\ sc_batches = 0
    /\ sc_pos = [epoch |-> 0, batch |-> 0, idx |-> 0]
    /\ sc_lr = << <<1, 1>>, <<1, 1>> >>
    /\ sc_steps = << 0, 0 >>
    /\ sc_params = [p \in ParamNames |-> 0]
    /\ sc_trace = << >>

\* ------------------------------------------ model factory, model variants
\* Largest cfg.dataset.number_of_classes of the model-factory specification.
MaxClasses == 3

\* str.lower() on the model names used here.
Lower(name) ==
    IF name = "CNN" THEN "cnn"
    ELSE IF name = "EffNet" THEN "effnet"
    ELSE IF name = "EfficientNet" THEN "efficientnet"
    ELSE IF name = "Wav2Vec" THEN "wav2vec"
    ELSE name

\* cfg.model.name
ModelNames == { "cnn", "EfficientNet", "Wav2Vec", "resnet" }

ModelOptions == { "partial", "all", "cnn", "cnn_avg", "cls_token",
                  "cls_token_not_pretrained", "paper", "lstm" }

\* utils.get_model(cfg): the class constructed, or None when no branch of
\* the if / elif chain matches.
get_model(cfg) ==
    IF Lower(cfg.name) = "cnn" THEN Some("SpectrogramCNN")
    ELSE IF Lower(cfg.name) = "efficientnet" THEN Some("EfficientNet")
    ELSE IF Lower(cfg.name) = "wav2vec" THEN
        IF cfg.option = "partial" THEN Some("Wav2VecFeezingEncoderOnly")
        ELSE IF cfg.option = "all" THEN Some("Wav2VecComplete")
        ELSE IF cfg.option = "cnn" THEN Some("Wav2VecFeatureExtractor")
        ELSE IF cfg.option = "cnn_avg" THEN Some("Wav2VecFeatureExtractorGAP")
        ELSE IF cfg.option = "cls_token" THEN Some("Wav2VecCLSToken")
        ELSE IF cfg.option = "cls_token_not_pretrained" THEN Some("Wav2VecCLSTokenNotPretrained")
        ELSE IF cfg.option = "paper" THEN Some("Wav2VecCLSPaperFinetuning")
        ELSE None
    ELSE None

\* The sub-modules of the pretrained wav2vec model; the encoder is split
\* into its layer-norm modules and the rest (attention, feed-forward,
\* positional convolution).
PretrainedModules ==
    { "feature_extractor", "feature_projection", "encoder_layers", "encoder_layer_norm" }

EncoderModules == { "encoder_layers", "encoder_layer_norm" }

\* The trainable classification head of a class.
HeadModule(class) ==
    IF class = "Wav2VecFeatureExtractor" THEN "linear_projector"
    ELSE IF class = "Wav2VecFeatureExtractorGAP" THEN "cls_net"
    ELSE IF class \in { "SpectrogramCNN", "EfficientNet" } THEN "net"
    ELSE "linear_layer"

\* __init__: the modules a class registers ("self" is the model itself).
Modules(class) ==
    IF class \in { "Wav2VecComplete", "Wav2VecFeezingEncoderOnly" }
    THEN { "self", "linear_layer", "softmax_activation" } \cup PretrainedModules
    ELSE IF class \in { "Wav2VecCLSPaperFinetuning", "Wav2VecCLSToken",
                        "Wav2VecCLSTokenNotPretrained" }
    THEN { "self", "linear_layer" } \cup PretrainedModules
    ELSE IF class \in { "Wav2VecFeatureExtractor", "Wav2VecFeatureExtractorGAP" }
    THEN { "self", "feature_extractor", HeadModule(class) }
    ELSE { "self", HeadModule(class) }

\* The modules that hold parameters.
ParamModules(class) == Modules(class) \ { "self", "softmax_activation" }

\* __init__: param.requires_grad of the parameters of module m.
RequiresGrad(class, finetune, m) ==
    IF class = "Wav2VecComplete" THEN (m \in PretrainedModules => finetune)
    ELSE IF class = "Wav2VecFeezingEncoderOnly" THEN m # "encoder_layers"
    ELSE IF class = "Wav2VecCLSPaperFinetuning" THEN m # "feature_extractor"
    ELSE IF class \in { "Wav2VecFeatureExtractor", "Wav2VecFeatureExtractorGAP" }
    THEN (m = "feature_extractor" => finetune)
    ELSE TRUE

\* __init__: module.training after construction; from_pretrained returns the
\* pretrained model in evaluation mode, every other module starts in
\* training mode.
InitialTraining(class, m) ==
    IF m \in PretrainedModules /\ class # "Wav2VecCLSTokenNotPretrained"
    THEN FALSE
    ELSE TRUE

\* train(): module.training of every module after model.train().
\* Wav2VecComplete and Wav2VecFeezingEncoderOnly override train(); the other
\* classes inherit torch.nn.Module.train, which sets every module.
TrainMode(class, finetune, training) ==
    IF class = "Wav2VecComplete"
    THEN [m \in Modules(class) |->
            IF m \in PretrainedModules THEN finetune
            ELSE IF m = "linear_layer" THEN TRUE
            ELSE training[m]]
    ELSE IF class = "Wav2VecFeezingEncoderOnly"
    THEN [m \in Modules(class) |->
            IF m \in EncoderModules THEN FALSE
            ELSE IF m \in { "feature_extractor", "feature_projection", "linear_layer" } THEN TRUE
            ELSE training[m]]
    ELSE [m \in Modules(class) |-> TRUE]

\* eval(): module.training of every module after model.eval().
EvalMode(class, finetune, training) ==
    IF class \in { "Wav2VecComplete", "Wav2VecFeezingEncoderOnly" }
    THEN [m \in Modules(class) |->
            IF m \in PretrainedModules \/ m = "linear_layer" THEN FALSE
            ELSE training[m]]
    ELSE [m \in Modules(class) |-> FALSE]

ModelIdle ==
    /\ md_cfg = [name |-> "cnn", option |-> "all", finetuning |-> FALSE,
                 number_of_classes |-> 2]
    /\ md_pc = "config"
    /\ md_model = None
    /\ md_last = "none"

\* ---------------------------------------------------- train_test.py: helpers
\* Largest conf["num_epoches"].
MaxEpochs == 2
\* Largest dataset length of the train/test specification.
MaxTrainLen == 16
\* Entry points called in one behaviour.
MaxRuns == 2

\* conf["model"]
TrainModelNames == { "CNN", "resnet" }

\* len(dataset)
TrainLens == { 10, MaxTrainLen }

\* conf["train_test_split_size"]
TrainFractions == { <<0, 1>>, <<4, 5>>, <<1, 1>> }

\* conf["training_batches"]
BatchSizes == { 1, 5 }

\* conf["testing_batches"]
TestBatchSizes == { 1, 2 }

\* The loss of one batch, as the model computes it on the batch's inputs.
Losses == { 0, 1 }

\* The loss of one training batch; its value reaches train_loss and, from
\* there, the 'Loss' scalar of the log only.
TrainLosses == { 1 }

\* The loss of one test batch; its value reaches the printed summary of
\* test() only.
TestLosses == { 1 }

\* train_test._get_model(model_name, num_classes, model_arch): the class
\* constructed, or None when no branch matches.
get_model_tt(model_name) ==
    IF Lower(model_name) = "cnn" THEN Some("SpectrogramCNN")
    ELSE IF Lower(model_name) = "effnet" THEN Some("EfficientNet")
    ELSE None

\* len(DataLoader(split, batch_size))
NumBatches(len, batch_size) == (len + batch_size - 1) \div batch_size

\* labels.size(0) of batch k (from 0) of DataLoader(split, batch_size)
BatchLen(len, batch_size, k) ==
    IF (k + 1) * batch_size <= len THEN batch_size ELSE len - k * batch_size

\* a < b for two averages <<sum, count>>
LossLess(a, b) == a[1] * b[2] < b[1] * a[2]

\* The test of line 122: no best model yet, or a strictly lower loss.
IsNewBestFlipped(best, val_loss) ==
    best = None \/ LossLess(best[1].Loss, val_loss)

IsNewBestOrEqual(best, val_loss) ==
    best = None \/ ~LossLess(best[1].Loss, val_loss)

IsNewBest(best, val_loss) ==
    best = None \/ LossLess(val_loss, best[1].Loss)

\* model.state_dict(): the parameter tensors of the model themselves, not
\* copies of them.
state_dict(model) == model.ref

\* The seed test() gives the split: conf["train_test_split_seed"].
TestSplitSeedNone(conf) == None

TestSplitSeed(conf) == Some(conf.seed)

NoFiles == [f \in { "best_model", "last_model" } |-> None]

\* The files an earlier, completed run of the same simulation name left.
StoredFiles == [f \in { "best_model", "last_model" } |-> Some(7)]

\* The checkpoint files after lines 117-123 of an epoch: the epoch loop
\* assigns best_model in memory and calls torch.save nowhere.
FilesAfterEpochSaved(files, best_model, heap) ==
    IF best_model = None THEN files
    ELSE [files EXCEPT !["best_model"] = Some(heap[best_model[1].State_Dict])]

FilesAfterEpoch(files, best_model, heap) == files

\* torch.load(path): None stands for the FileNotFoundError open() raises on
\* a missing file.
torch_load_default(files, name) ==
    IF files[name] = None THEN Some(0) ELSE files[name]

torch_load(files, name) == files[name]

NoWeightedLoss == [train |-> 0, val |-> 0]

LocalsCleared ==
    /\ tr_dataset = None
    /\ tr_train_dataset = None
    /\ tr_test_dataset = None
    /\ tr_model = None
    /\ tr_epoch = 0
    /\ tr_i = 0
    /\ tr_train_split = << >>
    /\ tr_val_split = << >>
    /\ tr_train_loss = << 0, 1 >>
    /\ tr_correct = 0
    /\ tr_total = 0
    /\ tr_val_loss = << 0, 1 >>
    /\ tr_best_model = None

\* The locals of an entry point at its call.
ClearLocals ==
    /\ tr_dataset' = None
    /\ tr_train_dataset' = None
    /\ tr_test_dataset' = None
    /\ tr_model' = None
    /\ tr_epoch' = 0
    /\ tr_i' = 0
    /\ tr_train_split' = << >>
    /\ tr_val_split' = << >>
    /\ tr_train_loss' = << 0, 1 >>
    /\ tr_correct' = 0
    /\ tr_total' = 0
    /\ tr_val_loss' = << 0, 1 >>
    /\ tr_best_model' = None

TrainIdle ==
    /\ tr_conf = [num_epoches |-> 0, model |-> "CNN", len |-> 0, split_size |-> <<0, 1>>,
                  seed |-> 0, training_batches |-> 1, testing_batches |-> 1]
    /\ tr_fn = "none"
    /\ tr_pc = "idle"
    /\ tr_runs = 0
    /\ tr_error = None
    /\ tr_heap = << >>
    /\ tr_files = NoFiles
    /\ tr_logs = << >>
    /\ LocalsCleared
    /\ tr_hist = << >>
    /\ tr_steps = 0
    /\ tr_records = 0
    /\ tr_writes = << >>
    /\ tr_train_seen = {}
    /\ tr_test_seen = {}
    /\ tr_files_before = tr_files
    /\ tr_wloss = NoWeightedLoss

\* ------------------------------------------- specification: split engine
SplitIdle ==
    /\ sp_ref = [n |-> 0, f |-> <<0, 1>>, seed |-> None]
    /\ sp_last = None
    /\ sp_refResults = {}
    /\ sp_hist = << >>

InitSplit ==
    /\ default_generator \in 0 .. MaxDefaultSeed
    /\ sp_ref \in [n : 0 .. MaxLen, f : Fractions, seed : { Some(s) : s \in Seeds }]
    /\ sp_last = None
    /\ sp_refResults = {}
    /\ sp_hist = << >>
    /\ SchedIdle
    /\ ModelIdle
    /\ TrainIdle

\* One call split_dataset(dataset, f, seed) on the dataset of sp_ref.n items.
CallSplit(f, seed, kind) ==
    LET r == split_dataset(Indices(sp_ref.n), f, seed, default_generator)
    IN  /\ Len(sp_hist) < MaxCalls
        /\ default_generator' = r.gen
        /\ sp_last' = Some([n |-> sp_ref.n, f |-> f, seed |-> seed,
                            train |-> r.train, test |-> r.test])
        /\ sp_refResults' =
              IF f = sp_ref.f /\ seed = sp_ref.seed
              THEN sp_refResults \cup { << r.train, r.test >> }
              ELSE sp_refResults
        /\ sp_hist' = Append(sp_hist, kind)
        /\ UNCHANGED << sp_ref, schedVars, modelVars, trainVars >>

\* The watched call: the same dataset, fraction and seed every time.
SplitWatched == CallSplit(sp_ref.f, sp_ref.seed, "watched")

\* Any other seeded call.
SplitSeeded ==
    \E f \in Fractions, s \in Seeds :
        /\ ~(f = sp_ref.f /\ Some(s) = sp_ref.seed)
        /\ CallSplit(f, Some(s), "seeded")

\* An unseeded call: draws from, and advances, the default generator.
SplitUnseeded == \E f \in Fractions : CallSplit(f, None, "unseeded")

NextSplit == SplitWatched \/ SplitSeeded \/ SplitUnseeded

SpecSplit == InitSplit /\ [][NextSplit]_vars

\* --------------------------------------- specification: staged optimizer
InitSched ==
    /\ default_generator = 0
    /\ SplitIdle
    /\ ModelIdle
    /\ TrainIdle
    /\ sc_T \in 1 .. MaxSchedEpochs
    /\ sc_batches \in 1 .. MaxSchedBatches
    /\ sc_pos = [epoch |-> 0, batch |-> 0, idx |-> 0]
    /\ sc_lr = << <<1, 1>>, <<1, 1>> >>
    /\ sc_steps = << 0, 0 >>
    /\ sc_params = [p \in ParamNames |-> 0]
    /\ sc_trace = << >>

\* The position of the call after the one at pos: the trainer calls
\* optimizer_step for optimizer 0 then 1 on every batch of every epoch.
NextPos(pos) ==
    IF pos.idx = 0 THEN [pos EXCEPT !.idx = 1]
    ELSE IF pos.batch + 1 < sc_batches
    THEN [pos EXCEPT !.batch = pos.batch + 1, !.idx = 0]
    ELSE [epoch |-> pos.epoch + 1, batch |-> 0, idx |-> 0]

\* One call optimizer_step(epoch, batch_idx, optimizer, optimizer_idx).
OptimizerStep ==
    LET e       == sc_pos.epoch
        i       == sc_pos.idx
        applied == StepApplied(e, sc_T, i)
        lr      == IF applied THEN ScheduledLr(e, sc_T, sc_lr[i + 1]) ELSE sc_lr[i + 1]
    IN  /\ sc_T > 0
        /\ e < sc_T
        /\ sc_lr' = [sc_lr EXCEPT ![i + 1] = lr]
        /\ sc_steps' = IF applied THEN [sc_steps EXCEPT ![i + 1] = @ + 1] ELSE sc_steps
        /\ sc_params' =
              IF applied
              THEN [p \in ParamNames |->
                      IF p \in OptimizerParams(i) THEN sc_params[p] + 1 ELSE sc_params[p]]
              ELSE sc_params
        /\ sc_trace' = Append(sc_trace, [epoch |-> e, batch |-> sc_pos.batch, idx |-> i,
                                         applied |-> applied, lr |-> lr])
        /\ sc_pos' = NextPos(sc_pos)
        /\ UNCHANGED << sc_T, sc_batches, default_generator, splitVars, modelVars, trainVars >>

NextSched == OptimizerStep

SpecSched == InitSched /\ [][NextSched]_vars

\* ------------------------------------------ specification: model factory
InitModels ==
    /\ default_generator = 0
    /\ SplitIdle
    /\ SchedIdle
    /\ TrainIdle
    /\ md_cfg \in [name : ModelNames, option : ModelOptions, finetuning : BOOLEAN,
                    number_of_classes : 2 .. MaxClasses]
    /\ md_pc = "config"
    /\ md_model = None
    /\ md_last = "none"

\* model = get_model(cfg)
GetModel ==
    LET got == get_model(md_cfg)
    IN  /\ md_pc = "config"
        /\ md_pc' = "built"
        /\ md_model' =
              IF got = None THEN None
              ELSE Some([ class |-> got[1],
                          out_features |-> md_cfg.number_of_classes,
                          requires_grad |->
                              [m \in ParamModules(got[1]) |->
                                  RequiresGrad(got[1], md_cfg.finetuning, m)],
                          training |->
                              [m \in Modules(got[1]) |-> InitialTraining(got[1], m)] ])
        /\ md_last' = "get_model"
        /\ UNCHANGED << md_cfg, default_generator, splitVars, schedVars, trainVars >>

\* model.train(); on None the attribute lookup raises AttributeError.
ModelTrain ==
    /\ md_pc = "built"
    /\ md_last' = "train"
    /\ IF md_model = None
       THEN md_pc' = "failed" /\ UNCHANGED md_model
       ELSE /\ md_model' = Some([md_model[1] EXCEPT !.training =
                    TrainMode(md_model[1].class, md_cfg.finetuning, @)])
            /\ UNCHANGED md_pc
    /\ UNCHANGED << md_cfg, default_generator, splitVars, schedVars, trainVars >>

\* model.eval()
ModelEval ==
    /\ md_pc = "built"
    /\ md_last' = "eval"
    /\ IF md_model = None
       THEN md_pc' = "failed" /\ UNCHANGED md_model
       ELSE /\ md_model' = Some([md_model[1] EXCEPT !.training =
                    EvalMode(md_model[1].class, md_cfg.finetuning, @)])
            /\ UNCHANGED md_pc
    /\ UNCHANGED << md_cfg, default_generator, splitVars, schedVars, trainVars >>

NextModels == GetModel \/ ModelTrain \/ ModelEval

SpecModels == InitModels /\ [][NextModels]_vars

\* -------------------------------------- specification: train() and test()
InitTrain ==
    /\ default_generator \in 0 .. MaxDefaultSeed
    /\ SplitIdle
    /\ SchedIdle
    /\ ModelIdle
    /\ tr_conf \in [num_epoches : 0 .. MaxEpochs, model : TrainModelNames, len : TrainLens,
                    split_size : TrainFractions, seed : Seeds,
                    training_batches : BatchSizes, testing_batches : TestBatchSizes]
    /\ tr_fn = "none"
    /\ tr_pc = "idle"
    /\ tr_runs = 0
    /\ tr_error = None
    /\ tr_heap = << >>
    /\ tr_files \in { NoFiles, StoredFiles }
    /\ tr_logs = << >>
    /\ LocalsCleared
    /\ tr_hist = << >>
    /\ tr_steps = 0
    /\ tr_records = 0
    /\ tr_writes = << >>
    /\ tr_train_seen = {}
    /\ tr_test_seen = {}
    /\ tr_files_before = tr_files
    /\ tr_wloss = NoWeightedLoss

otherVars == << splitVars, schedVars, modelVars >>

\* The run ends with an exception raised at `line` by `raiser`.
Abort(exception, line, raiser) ==
    /\ tr_pc' = "aborted"
    /\ tr_error' = Some([exception |-> exception, line |-> line, raised_by |-> raiser])

\* A new call of an entry point: its locals do not exist yet, the objects of
\* the call before are unreachable, and the record of what the run did
\* starts empty.
StartRun(fn, pc) ==
    /\ tr_pc \in { "idle", "done", "aborted" }
    /\ tr_runs < MaxRuns
    /\ tr_runs' = tr_runs + 1
    /\ tr_fn' = fn
    /\ tr_pc' = pc
    /\ tr_error' = None
    /\ ClearLocals
    /\ tr_hist' = << >>
    /\ tr_steps' = 0
    /\ tr_records' = 0
    /\ tr_writes' = << >>
    /\ tr_files_before' = tr_files
    /\ tr_wloss' = NoWeightedLoss
    /\ tr_heap' = << >>
    /\ UNCHANGED << tr_conf, tr_files, tr_logs, default_generator, otherVars >>

\* train(conf_file), lines 28-52: the configuration is read.  A behaviour
\* trains at most once, as its first call.
StartTrain ==
    /\ tr_runs = 0
    /\ StartRun("train", "dataset")
    /\ tr_train_seen' = {}
    /\ UNCHANGED tr_test_seen

\* train(), lines 56-58: the dataset and its seeded train subset.
TrainDataset ==
    LET r == get_dataset_split(Indices(tr_conf.len), tr_conf.split_size,
                               Some(tr_conf.seed), default_generator)
    IN  /\ tr_fn = "train" /\ tr_pc = "dataset"
        /\ tr_dataset' = Some(tr_conf.len)
        /\ tr_train_dataset' = Some(r.train)
        /\ default_generator' = r.gen
        /\ tr_pc' = "model"
        /\ UNCHANGED << tr_conf, tr_fn, tr_runs, tr_error, tr_heap, tr_files, tr_logs,
                        tr_test_dataset, tr_model, tr_epoch, tr_i, tr_train_split,
                        tr_val_split, tr_train_loss, tr_correct, tr_total, tr_val_loss,
                        tr_best_model, trainGhosts, otherVars >>

\* train(), lines 62-64: model = _get_model(...); a model constructed gets a
\* new parameter storage.
TrainModel ==
    LET got == get_model_tt(tr_conf.model)
    IN  /\ tr_fn = "train" /\ tr_pc = "model"
        /\ IF got = None
           THEN tr_model' = None /\ UNCHANGED tr_heap
           ELSE /\ tr_heap' = Append(tr_heap, 0)
                /\ tr_model' = Some([class |-> got[1], ref |-> Len(tr_heap) + 1])
        /\ tr_pc' = "setup"
        /\ UNCHANGED << tr_conf, tr_fn, tr_runs, tr_error, tr_files, tr_logs, tr_dataset,
                        tr_train_dataset, tr_test_dataset, tr_epoch, tr_i, tr_train_split,
                        tr_val_split, tr_train_loss, tr_correct, tr_total, tr_val_loss,
                        tr_best_model, trainGhosts, default_generator, otherVars >>

\* train(), lines 66-74: model.to(device), criterion, optimizer, log writer,
\* best_model = None.
TrainSetup ==
    /\ tr_fn = "train" /\ tr_pc = "setup"
    /\ IF tr_model = None
       THEN Abort("AttributeError", 66, "train")
       ELSE tr_pc' = "epoch" /\ UNCHANGED tr_error
    /\ tr_best_model' = None
    /\ tr_epoch' = 0
    /\ UNCHANGED << tr_conf, tr_fn, tr_runs, tr_heap, tr_files, tr_logs, tr_dataset,
                    tr_train_dataset, tr_test_dataset, tr_model, tr_i, tr_train_split,
                    tr_val_split, tr_train_loss, tr_correct, tr_total, tr_val_loss,
                    trainGhosts, default_generator, otherVars >>

\* The position after the training loop of an epoch whose validation split
\* has n_val items.
AfterTraining(n_val) ==
    IF NumBatches(n_val, tr_conf.testing_batches) > 0 THEN "validate" ELSE "epoch_end"

\* train(), lines 75-83 and 105-107: the epoch's unseeded split, the loaders
\* and the accumulators.
EpochStart ==
    LET r == get_dataset_split(tr_train_dataset[1], <<4, 5>>, None, default_generator)
    IN  /\ tr_fn = "train" /\ tr_pc = "epoch"
        /\ tr_epoch < tr_conf.num_epoches
        /\ tr_train_split' = r.train
        /\ tr_val_split' = r.test
        /\ default_generator' = r.gen
        /\ tr_train_loss' = << 0, NumBatches(Len(r.train), tr_conf.training_batches) >>
        /\ tr_val_loss' = << 0, NumBatches(Len(r.test), tr_conf.testing_batches) >>
        /\ tr_correct' = 0
        /\ tr_total' = 0
        /\ tr_i' = 0
        /\ tr_pc' = IF NumBatches(Len(r.train), tr_conf.training_batches) > 0
                    THEN "train_batch" ELSE AfterTraining(Len(r.test))
        /\ tr_train_seen' = tr_train_seen \cup Range(r.train) \cup Range(r.test)
        /\ tr_wloss' = NoWeightedLoss
        /\ UNCHANGED << tr_conf, tr_fn, tr_runs, tr_error, tr_heap, tr_files, tr_logs,
                        tr_dataset, tr_train_dataset, tr_test_dataset, tr_model, tr_epoch,
                        tr_best_model, tr_hist, tr_steps, tr_records, tr_writes,
                        tr_test_seen, tr_files_before, otherVars >>

\* train(), lines 84-102: one training batch.  optimizer.step() updates the
\* parameters in place; the progress test i % (len(train_loader) // 10)
\* divides by zero when the loader has fewer than 10 batches.
TrainBatch ==
    \E loss \in TrainLosses :
        LET n == tr_train_loss[2]
        IN  /\ tr_fn = "train" /\ tr_pc = "train_batch"
            /\ tr_heap' = [tr_heap EXCEPT ![tr_model[1].ref] = @ + 1]
            /\ tr_steps' = tr_steps + 1
            /\ IF n \div 10 = 0
               THEN /\ Abort("ZeroDivisionError", 97, "train")
                    /\ UNCHANGED << tr_train_loss, tr_i, tr_wloss >>
               ELSE /\ tr_train_loss' = << tr_train_loss[1] + loss, n >>
                    /\ tr_wloss' = [tr_wloss EXCEPT !.train = @ + loss *
                          BatchLen(Len(tr_train_split), tr_conf.training_batches, tr_i)]
                    /\ tr_i' = IF tr_i + 1 < n THEN tr_i + 1 ELSE 0
                    /\ tr_pc' = IF tr_i + 1 < n THEN "train_batch"
                                ELSE AfterTraining(Len(tr_val_split))
                    /\ UNCHANGED tr_error
            /\ UNCHANGED << tr_conf, tr_fn, tr_runs, tr_files, tr_logs, tr_dataset,
                            tr_train_dataset, tr_test_dataset, tr_model, tr_epoch,
                            tr_train_split, tr_val_split, tr_correct, tr_total, tr_val_loss,
                            tr_best_model, tr_hist, tr_records, tr_writes, tr_train_seen,
                            tr_test_seen, tr_files_before, default_generator, otherVars >>

\* train(), lines 109-115: one validation batch.
ValBatch ==
    /\ tr_fn = "train" /\ tr_pc = "validate"
    /\ LET n    == tr_val_loss[2]
           blen == BatchLen(Len(tr_val_split), tr_conf.testing_batches, tr_i)
       IN  \E loss \in Losses, right \in 0 .. blen :
            /\ tr_total' = tr_total + blen
            /\ tr_correct' = tr_correct + right
            /\ tr_val_loss' = << tr_val_loss[1] + loss, n >>
            /\ tr_i' = IF tr_i + 1 < n THEN tr_i + 1 ELSE 0
            /\ tr_pc' = IF tr_i + 1 < n THEN "validate" ELSE "epoch_end"
            /\ tr_wloss' = [tr_wloss EXCEPT !.val = @ + loss * blen]
            /\ UNCHANGED << tr_conf, tr_fn, tr_runs, tr_error, tr_heap, tr_files, tr_logs,
                            tr_dataset, tr_train_dataset, tr_test_dataset, tr_model,
                            tr_epoch, tr_train_split, tr_val_split, tr_train_loss,
                            tr_best_model, tr_hist, tr_steps, tr_records, tr_writes,
                            tr_train_seen, tr_test_seen, tr_files_before,
                            default_generator, otherVars >>

\* train(), lines 84 and 109: fetching the next batch raises in the loader (an
\* item of the dataset cannot be read); the exception leaves train() through
\* the `for` line of the loop and the run ends.
BatchFails ==
    /\ tr_fn = "train" /\ tr_pc \in { "train_batch", "validate" }
    /\ Abort("RuntimeError", IF tr_pc = "train_batch" THEN 84 ELSE 109, "DataLoader")
    /\ UNCHANGED << tr_conf, tr_fn, tr_runs, tr_heap, tr_files, tr_logs, trainLocals,
                    trainGhosts, default_generator, otherVars >>

\* train(), lines 117-123: the epoch's scalars are logged and the best model
\* is replaced when the test of line 122 passes.  correct / total divides by
\* zero on an empty validation split, after the losses are logged.
EpochEnd ==
    /\ tr_fn = "train" /\ tr_pc = "epoch_end"
    /\ IF tr_total = 0
       THEN /\ tr_logs' = Append(tr_logs, << "Loss", tr_epoch >>)
            /\ Abort("ZeroDivisionError", 118, "train")
            /\ UNCHANGED << tr_best_model, tr_hist, tr_records, tr_epoch >>
       ELSE /\ tr_logs' = tr_logs \o << << "Loss", tr_epoch >>, << "Accuracy", tr_epoch >> >>
            /\ IF IsNewBest(tr_best_model, tr_val_loss)
               THEN /\ tr_best_model' =
                          Some([State_Dict |-> state_dict(tr_model[1]), Epoch |-> tr_epoch,
                                Loss |-> tr_val_loss,
                                Accuracy |-> << tr_correct, tr_total >>])
                    /\ tr_records' = tr_records + 1
               ELSE UNCHANGED << tr_best_model, tr_records >>
            /\ tr_hist' = Append(tr_hist,
                                 [Loss |-> tr_val_loss,
                                  Accuracy |-> << tr_correct, tr_total >>,
                                  Params |-> tr_heap[tr_model[1].ref]])
            /\ tr_epoch' = tr_epoch + 1
            /\ tr_pc' = "epoch"
            /\ UNCHANGED tr_error
    /\ tr_files' = FilesAfterEpoch(tr_files, tr_best_model', tr_heap)
    /\ UNCHANGED << tr_conf, tr_fn, tr_runs, tr_heap, tr_dataset,
                    tr_train_dataset, tr_test_dataset, tr_model, tr_i, tr_train_split,
                    tr_val_split, tr_train_loss, tr_correct, tr_total, tr_val_loss,
                    tr_steps, tr_writes, tr_train_seen, tr_test_seen, tr_files_before,
                    tr_wloss, default_generator, otherVars >>

\* train(), lines 126-130: after the last epoch the best and the last model
\* are saved; best_model['Epoch'] fails on None when no epoch ran.
Finalize ==
    /\ tr_fn = "train" /\ tr_pc = "epoch"
    /\ tr_epoch >= tr_conf.num_epoches
    /\ IF tr_best_model = None
       THEN /\ Abort("TypeError", 127, "train")
            /\ UNCHANGED << tr_files, tr_writes >>
       ELSE /\ tr_files' = [tr_files EXCEPT
                                !["best_model"] = Some(tr_heap[tr_best_model[1].State_Dict]),
                                !["last_model"] = Some(tr_heap[state_dict(tr_model[1])])]
            /\ tr_writes' = tr_writes \o << "best_model", "last_model" >>
            /\ tr_pc' = "done"
            /\ UNCHANGED tr_error
    /\ UNCHANGED << tr_conf, tr_fn, tr_runs, tr_heap, tr_logs, trainLocals, tr_hist,
                    tr_steps, tr_records, tr_train_seen, tr_test_seen, tr_files_before,
                    tr_wloss, default_generator, otherVars >>

\* test(conf_file), lines 137-161: the configuration is read.
StartTest ==
    /\ StartRun("test", "test_dataset")
    /\ tr_test_seen' = {}
    /\ UNCHANGED tr_train_seen

\* test(), lines 166-170: the dataset, its seeded test subset and the loader.
TestDataset ==
    LET r == get_dataset_split(Indices(tr_conf.len), tr_conf.split_size,
                               TestSplitSeed(tr_conf), default_generator)
    IN  /\ tr_fn = "test" /\ tr_pc = "test_dataset"
        /\ tr_dataset' = Some(tr_conf.len)
        /\ tr_test_dataset' = Some(r.test)
        /\ tr_test_seen' = Range(r.test)
        /\ default_generator' = r.gen
        /\ tr_pc' = "test_model"
        /\ UNCHANGED << tr_conf, tr_fn, tr_runs, tr_error, tr_heap, tr_files, tr_logs,
                        tr_train_dataset, tr_model, tr_epoch, tr_i, tr_train_split,
                        tr_val_split, tr_train_loss, tr_correct, tr_total, tr_val_loss,
                        tr_best_model, tr_hist, tr_steps, tr_records, tr_writes,
                        tr_train_seen, tr_files_before, tr_wloss, otherVars >>

\* test(), lines 175-177: model = _get_model(...)
TestModel ==
    LET got == get_model_tt(tr_conf.model)
    IN  /\ tr_fn = "test" /\ tr_pc = "test_model"
        /\ IF got = None
           THEN tr_model' = None /\ UNCHANGED tr_heap
           ELSE /\ tr_heap' = Append(tr_heap, 0)
                /\ tr_model' = Some([class |-> got[1], ref |-> Len(tr_heap) + 1])
        /\ tr_pc' = "test_load"
        /\ UNCHANGED << tr_conf, tr_fn, tr_runs, tr_error, tr_files, tr_logs, tr_dataset,
                        tr_train_dataset, tr_test_dataset, tr_epoch, tr_i, tr_train_split,
                        tr_val_split, tr_train_loss, tr_correct, tr_total, tr_val_loss,
                        tr_best_model, trainGhosts, default_generator, otherVars >>

\* test(), lines 179-192: model.to(device), the best-model file is loaded
\* into the model, the log writer and the accumulators are set up.  On a
\* missing file the FileNotFoundError is raised inside torch.load, called at
\* line 181.
TestLoad ==
    LET n      == NumBatches(Len(tr_test_dataset[1]), tr_conf.testing_batches)
        loaded == torch_load(tr_files, "best_model")
    IN  /\ tr_fn = "test" /\ tr_pc = "test_load"
        /\ IF tr_model = None
           THEN /\ Abort("AttributeError", 179, "test")
                /\ UNCHANGED << tr_heap, tr_val_loss, tr_correct, tr_total, tr_i >>
           ELSE IF loaded = None
           THEN /\ Abort("FileNotFoundError", 181, "load")
                /\ UNCHANGED << tr_heap, tr_val_loss, tr_correct, tr_total, tr_i >>
           ELSE /\ tr_heap' = [tr_heap EXCEPT ![tr_model[1].ref] = loaded[1]]
                /\ tr_val_loss' = << 0, n >>
                /\ tr_correct' = 0
                /\ tr_total' = 0
                /\ tr_i' = 0
                /\ tr_pc' = IF n > 0 THEN "test_batch" ELSE "test_end"
                /\ UNCHANGED tr_error
        /\ UNCHANGED << tr_conf, tr_fn, tr_runs, tr_files, tr_logs, tr_dataset,
                        tr_train_dataset, tr_test_dataset, tr_model, tr_epoch,
                        tr_train_split, tr_val_split, tr_train_loss, tr_best_model,
                        trainGhosts, default_generator, otherVars >>

\* test(), lines 194-200: one test batch.
TestBatch ==
    /\ tr_fn = "test" /\ tr_pc = "test_batch"
    /\ LET n    == tr_val_loss[2]
           blen == BatchLen(Len(tr_test_dataset[1]), tr_conf.testing_batches, tr_i)
       IN  \E loss \in TestLosses, right \in 0 .. blen :
            /\ tr_total' = tr_total + blen
            /\ tr_correct' = tr_correct + right
            /\ tr_val_loss' = << tr_val_loss[1] + loss, n >>
            /\ tr_i' = IF tr_i + 1 < n THEN tr_i + 1 ELSE 0
            /\ tr_pc' = IF tr_i + 1 < n THEN "test_batch" ELSE "test_end"
            /\ UNCHANGED << tr_conf, tr_fn, tr_runs, tr_error, tr_heap, tr_files, tr_logs,
                            tr_dataset, tr_train_dataset, tr_test_dataset, tr_model,
                            tr_epoch, tr_train_split, tr_val_split, tr_train_loss,
                            tr_best_model, trainGhosts, default_generator, otherVars >>

\* test(), line 194: fetching the next test batch raises in the loader; the
\* exception leaves test() through the `for` line and the run ends.
TestBatchFails ==
    /\ tr_fn = "test" /\ tr_pc = "test_batch"
    /\ Abort("RuntimeError", 194, "DataLoader")
    /\ UNCHANGED << tr_conf, tr_fn, tr_runs, tr_heap, tr_files, tr_logs, trainLocals,
                    trainGhosts, default_generator, otherVars >>

\* test(), lines 203-207: the test accuracy is logged; correct / total
\* divides by zero on an empty test subset.
TestEnd ==
    /\ tr_fn = "test" /\ tr_pc = "test_end"
    /\ IF tr_total = 0
       THEN Abort("ZeroDivisionError", 203, "test") /\ UNCHANGED tr_logs
       ELSE /\ tr_logs' = Append(tr_logs, << "Accuracy", tr_conf.num_epoches >>)
            /\ tr_pc' = "done"
            /\ UNCHANGED tr_error
    /\ UNCHANGED << tr_conf, tr_fn, tr_runs, tr_heap, tr_files, trainLocals, trainGhosts,
                    default_generator, otherVars >>

NextTrain ==
    \/ StartTrain \/ TrainDataset \/ TrainModel \/ TrainSetup \/ EpochStart
    \/ TrainBatch \/ ValBatch \/ BatchFails \/ EpochEnd \/ Finalize
    \/ StartTest \/ TestDataset \/ TestModel \/ TestLoad \/ TestBatch \/ TestBatchFails \/ TestEnd

Spec == InitTrain /\ [][NextTrain]_vars

\* ------------------------------------------------------ claims: split engine
\* s is the integer nearest to n * f, the even one of the two on a tie.
IsRoundOf(s, n, f) ==
    LET twice == 2 * (s * f[2] - n * f[1])
    IN  /\ twice >= -f[2]
        /\ twice <= f[2]
        /\ (twice = f[2] \/ twice = -f[2]) => s % 2 = 0

\* C4: for every dataset length N >= 0 and fraction f in [0, 1] the split
\* returns two subsets whose sizes sum to N, the first of size round(N * f)
\* and the second of size N - round(N * f).
C4_SplitSizes ==
    sp_last # None =>
        LET c == sp_last[1]
        IN  /\ Len(c.train) + Len(c.test) = c.n
            /\ IsRoundOf(Len(c.train), c.n, c.f)
            /\ Len(c.test) = c.n - Len(c.train)

\* A split of 5 items at fraction 1/2: the tie 2.5 goes to the even 2.
C4_Witness ==
    /\ sp_last # None
    /\ sp_last[1].n = 5
    /\ sp_last[1].f = <<1, 2>>
    /\ Len(sp_last[1].train) = 2
    /\ Len(sp_last[1].test) = 3

\* C5: two calls of the split with the same dataset length, fraction and seed
\* (not None) return the identical pair of index subsets, whatever seeded or
\* unseeded splits were made in between.
C5_SeededSplitReproducible == Cardinality(sp_refResults) <= 1

\* The watched split was called, then an unseeded split that consumed the
\* default generator, then the watched split again, on at least 4 items.
C5_Witness ==
    /\ sp_hist = << "watched", "unseeded", "watched" >>
    /\ sp_ref.n >= 4
    /\ sp_ref.f = <<4, 5>>
    /\ Cardinality(sp_refResults) = 1

\* -------------------------------------------------- claims: staged optimizer
\* C7: in every batch of every epoch e of a run of T epochs exactly one of
\* the two optimizers has its step applied, optimizer 0 iff e / T <= 0.3 and
\* optimizer 1 iff e / T > 0.3; the applied optimizer changes at most once
\* over the run, from 0 to 1.
C7_ExactlyOneOptimizerSteps ==
    \A k \in 1 .. Len(sc_trace) :
        LET c == sc_trace[k]
        IN  /\ c.applied <=> (IF 10 * c.epoch <= 3 * sc_T THEN c.idx = 0 ELSE c.idx = 1)
            /\ c.idx = 1 =>
                  /\ sc_trace[k - 1].idx = 0
                  /\ sc_trace[k - 1].epoch = c.epoch
                  /\ sc_trace[k - 1].batch = c.batch
                  /\ sc_trace[k - 1].applied # c.applied
            /\ \A j \in 1 .. (k - 1) :
                  (sc_trace[j].applied /\ c.applied) => sc_trace[j].idx <= c.idx

\* T = 10: optimizer 0 stepped at epoch 3 (3 / 10 <= 0.3), and at epoch 6
\* optimizer 0 was skipped and optimizer 1 stepped.
C7_Witness ==
    /\ sc_T = 10
    /\ \E k \in 1 .. Len(sc_trace) :
          sc_trace[k].epoch = 3 /\ sc_trace[k].idx = 0 /\ sc_trace[k].applied
    /\ \E k \in 1 .. Len(sc_trace) :
          sc_trace[k].epoch = 6 /\ sc_trace[k].idx = 0 /\ ~sc_trace[k].applied
    /\ \E k \in 1 .. Len(sc_trace) :
          sc_trace[k].epoch = 6 /\ sc_trace[k].idx = 1 /\ sc_trace[k].applied

\* C8 as stated: once optimizer 0 (the classification head) is inactive for
\* the rest of the run, no later optimizer step changes a parameter of its
\* group, the linear layer.
C8_InactiveGroupParamsKept ==
    [][ 10 * sc_pos.epoch > 3 * sc_T =>
            \A p \in { "linear_layer" } : sc_params'[p] = sc_params[p] ]_vars

\* C8 as amended: once optimizer 0 is inactive for the rest of the run it
\* takes no further step; while optimizer 1 is inactive the parameters it
\* does not share with optimizer 0 are not changed; the frozen feature
\* extractor is never changed.  (The linear layer is in both optimizers and
\* goes on being updated by optimizer 1.)
C8_InactiveOptimizerStops ==
    [][ /\ 10 * sc_pos.epoch > 3 * sc_T => sc_steps'[1] = sc_steps[1]
        /\ 10 * sc_pos.epoch <= 3 * sc_T =>
              /\ sc_steps'[2] = sc_steps[2]
              /\ \A p \in { "feature_projection", "encoder" } :
                    sc_params'[p] = sc_params[p]
        /\ sc_params'["feature_extractor"] = sc_params["feature_extractor"] ]_vars

\* Optimizer 0 has stepped and gone inactive, and optimizer 1 has since
\* stepped twice, updating the linear layer as well as the encoder.
C8_Witness ==
    /\ 10 * sc_pos.epoch > 3 * sc_T
    /\ sc_steps[1] >= 1
    /\ sc_steps[2] >= 2
    /\ sc_params["linear_layer"] = sc_steps[1] + sc_steps[2]
    /\ sc_params["encoder"] = sc_steps[2]

\* ---------------------------------------------------- claims: model variants
\* The modules of the model all of whose parameters were frozen at
\* construction.
FrozenModules(model) ==
    { m \in DOMAIN model.requires_grad : ~model.requires_grad[m] }

Wav2VecClasses ==
    { "Wav2VecComplete", "Wav2VecFeezingEncoderOnly", "Wav2VecCLSPaperFinetuning",
      "Wav2VecFeatureExtractor", "Wav2VecFeatureExtractorGAP", "Wav2VecCLSToken",
      "Wav2VecCLSTokenNotPretrained" }

\* C10: for every pretrained-speech-encoder variant, after the model is put
\* in training mode every sub-module whose parameters were all frozen at
\* construction is in evaluation mode and the trainable head is in training
\* mode.
C10_FrozenModulesInEvalMode ==
    (md_model # None /\ md_last = "train" /\ md_model[1].class \in Wav2VecClasses) =>
        /\ \A m \in FrozenModules(md_model[1]) : ~md_model[1].training[m]
        /\ md_model[1].training[HeadModule(md_model[1].class)]

\* ------------------------------------------------ claims: train() and test()
\* C1: in a run of n >= 2 epochs whose best epoch b is not the last one, the
\* parameters saved as the best checkpoint are the parameters the model had
\* at the end of epoch b, unchanged by the optimizer steps of later epochs.
C1_BestFileHoldsBestEpochParams ==
    (/\ tr_fn = "train"
     /\ tr_pc = "done"
     /\ tr_conf.num_epoches >= 2
     /\ tr_best_model[1].Epoch < tr_conf.num_epoches - 1) =>
        tr_files["best_model"] = Some(tr_hist[tr_best_model[1].Epoch + 1].Params)

\* C2: after any sequence of completed epochs the validation loss kept in
\* best_model is less than or equal to the validation loss of every epoch
\* completed so far.
C2_BestLossIsMinimum ==
    (tr_fn = "train" /\ tr_hist # << >>) =>
        /\ tr_best_model # None
        /\ \A k \in 1 .. Len(tr_hist) :
              tr_best_model[1].Loss[1] * tr_hist[k].Loss[2]
                  <= tr_hist[k].Loss[1] * tr_best_model[1].Loss[2]

\* Two epochs are complete, the second with a strictly lower validation loss
\* than the first, and it is the one kept.
C2_Witness ==
    /\ tr_fn = "train"
    /\ Len(tr_hist) = 2
    /\ tr_hist[2].Loss[1] * tr_hist[1].Loss[2] < tr_hist[1].Loss[1] * tr_hist[2].Loss[2]
    /\ tr_best_model # None
    /\ tr_best_model[1].Epoch = 1
    /\ tr_best_model[1].Loss = tr_hist[2].Loss

\* C3: a 1-epoch run on a 10-item dataset with training batch size 5 and
\* split fraction 0.8 (6 training items per epoch) runs exactly 2 training
\* batches, records exactly 1 best checkpoint and ends in Finalize with
\* exactly the best-model and the last-model file written.
C3_SmallRunCompletes ==
    (/\ tr_conf.len = 10
     /\ tr_conf.split_size = <<4, 5>>
     /\ tr_conf.training_batches = 5
     /\ tr_conf.num_epoches = 1
     /\ tr_conf.model = "CNN"
     /\ tr_fn = "train"
     /\ tr_pc \in { "done", "aborted" }) =>
        /\ tr_pc = "done"
        /\ tr_steps = 2
        /\ tr_records = 1
        /\ tr_writes = << "best_model", "last_model" >>

\* C6: with the same configuration for train() and test(), no dataset index
\* of any epoch's train or validation split of train() is in the test split
\* of test(); within an epoch the train and validation splits are disjoint
\* and their union is the seeded train subset.
C6_TrainAndTestDisjoint ==
    /\ tr_train_seen \cap tr_test_seen = {}
    /\ (tr_fn = "train" /\ tr_pc \in { "train_batch", "validate", "epoch_end" }) =>
          /\ Range(tr_train_split) \cap Range(tr_val_split) = {}
          /\ Range(tr_train_split) \cup Range(tr_val_split) = Range(tr_train_dataset[1])
          /\ Cardinality(Range(tr_train_split)) = Len(tr_train_split)
          /\ Cardinality(Range(tr_val_split)) = Len(tr_val_split)

\* train() ran two epochs on 16 items split at 0.8 and test() then built its
\* test subset: 13 indices seen in training, 3 in the test subset.
C6_Witness ==
    /\ tr_fn = "test"
    /\ tr_conf.len = 16
    /\ tr_conf.num_epoches = 2
    /\ Len(tr_logs) >= 4
    /\ Cardinality(tr_train_seen) = 13
    /\ Cardinality(tr_test_seen) = 3

\* C9: with an unknown model name the run fails with an error raised by the
\* model factory itself, before the dataset is constructed or split; the
\* factory never hands None to its caller.
C9_UnknownModelFailsInFactory ==
    (tr_fn \in { "train", "test" } /\ Lower(tr_conf.model) \notin { "cnn", "effnet" }) =>
        /\ tr_dataset = None
        /\ tr_pc \notin { "setup", "test_load" }
        /\ tr_pc = "aborted" => tr_error[1].raised_by = "_get_model"

\* C11: a train() run that aborts in an epoch (training or validation loop)
\* leaves the checkpoint files exactly as they were when the run started;
\* train() writes files only in Finalize, after the last epoch.
C11_AbortedRunKeepsFiles ==
    (tr_fn = "train" /\ tr_pc # "done") =>
        /\ tr_files = tr_files_before
        /\ tr_writes = << >>

\* Files of an earlier run exist, epoch 0 completed and recorded a best
\* model, and the run aborted on a batch of epoch 1.
C11_Witness ==
    /\ tr_fn = "train"
    /\ tr_pc = "aborted"
    /\ tr_error[1].raised_by = "DataLoader"
    /\ tr_epoch = 1
    /\ tr_best_model # None
    /\ tr_files_before = StoredFiles
    /\ tr_files = StoredFiles

\* C12: test() called when no best-model file exists ends with an error
\* (FileNotFoundError from line 181 when the model name is known), evaluates
\* no test batch and appends nothing to the metrics log.
C12_TestWithoutCheckpointFails ==
    /\ [](  (tr_fn = "test" /\ tr_files["best_model"] = None) =>
              /\ tr_pc \in { "test_dataset", "test_model", "test_load", "aborted" }
              /\ tr_total = 0
              /\ tr_pc = "aborted" =>
                    /\ tr_error # None
                    /\ get_model_tt(tr_conf.model) # None =>
                          tr_error[1].exception = "FileNotFoundError" )
    /\ [][ (tr_fn' = "test" /\ tr_files'["best_model"] = None) =>
              tr_logs' = tr_logs ]_vars

\* train() logged epoch 0 and aborted without saving, then test() failed on
\* the missing file.
C12_Witness ==
    /\ tr_fn = "test"
    /\ tr_runs = 2
    /\ tr_pc = "aborted"
    /\ tr_files["best_model"] = None
    /\ tr_error[1].exception = "FileNotFoundError"
    /\ tr_error[1].line = 181
    /\ Len(tr_logs) >= 2
    /\ tr_total = 0

\* C13: the epoch's train loss and validation loss are length-weighted
\* averages of the batch losses: each equals the sum over the batches of
\* (batch size x batch loss) divided by the number of samples of the split,
\* also when the last batch is smaller than the others.
C13_LossIsLengthWeighted ==
    (tr_fn = "train" /\ tr_pc = "epoch_end") =>
        /\ tr_train_loss[1] * Len(tr_train_split) = tr_wloss.train * tr_train_loss[2]
        /\ tr_val_loss[1] * Len(tr_val_split) = tr_wloss.val * tr_val_loss[2]

\* ------------------------------------------- claims: learning-rate schedule
\* The optimizer_step calls made so far whose step was applied.
AppliedSteps == { k \in 1 .. Len(sc_trace) : sc_trace[k].applied }

\* C14 as stated: from epoch T \div 2 on the active group's learning rate is
\* the base rate at epoch T \div 2, decreases by the same amount at each
\* later epoch and is 0 at the final epoch T - 1.
C14_DecayReachesZero ==
    \A k \in AppliedSteps :
        LET e  == sc_trace[k].epoch
            lr == sc_trace[k].lr
            h  == sc_T \div 2
        IN  e >= h =>
              /\ e = h => lr[1] = lr[2]
              /\ e = sc_T - 1 => lr[1] = 0
              /\ sc_T - 1 > h => lr[1] * (sc_T - 1 - h) = (sc_T - 1 - e) * lr[2]

\* C14 as amended: from epoch T \div 2 on the active group's learning rate
\* is base * (T - e) / (T - T \div 2): the base rate at epoch T \div 2, less
\* by base / (T - T \div 2) at each later epoch, and base / (T - T \div 2),
\* above 0, at the final epoch T - 1.
C14_DecayStopsAboveZero ==
    \A k \in AppliedSteps :
        LET e  == sc_trace[k].epoch
            lr == sc_trace[k].lr
            h  == sc_T \div 2
        IN  e >= h =>
              /\ lr[1] * (sc_T - h) = (sc_T - e) * lr[2]
              /\ e = h => lr[1] = lr[2]
              /\ e = sc_T - 1 => (lr[1] > 0 /\ lr[1] * (sc_T - h) = lr[2])

\* T = 20: the steps of epoch 10 ran at the base rate, those of epoch 15 at
\* half of it and those of the final epoch 19 at a tenth of it.
C14_Witness ==
    /\ sc_T = 20
    /\ \E k \in AppliedSteps : sc_trace[k].epoch = 10 /\ sc_trace[k].lr = << 1, 1 >>
    /\ \E k \in AppliedSteps : sc_trace[k].epoch = 15 /\ sc_trace[k].lr = << 5, 10 >>
    /\ \E k \in AppliedSteps : sc_trace[k].epoch = 19 /\ sc_trace[k].lr = << 1, 10 >>

\* C15: with warm-up window W = T \div 10 >= 1, at every epoch e < W the
\* step applied is optimizer 0's, at the rate base * (e + 1) / W: never
\* above the base rate, never below the rate of an earlier step, and the
\* base rate at epoch W - 1; optimizer 1 is not applied.  (T = 10, e = 0:
\* base * 1 / 1.)
C15_WarmupRate ==
    \A k \in 1 .. Len(sc_trace) :
        LET c  == sc_trace[k]
            W  == sc_T \div 10
        IN  (W >= 1 /\ c.epoch < W) =>
              /\ c.applied <=> c.idx = 0
              /\ c.applied =>
                    /\ c.lr[1] * W = (c.epoch + 1) * c.lr[2]
                    /\ c.lr[1] <= c.lr[2]
                    /\ c.epoch = W - 1 => c.lr[1] = c.lr[2]
                    /\ \A j \in 1 .. (k - 1) :
                          sc_trace[j].applied =>
                              sc_trace[j].lr[1] * c.lr[2] <= c.lr[1] * sc_trace[j].lr[2]

\* T = 20 (W = 2): optimizer 0 stepped at half the base rate in epoch 0 and
\* at the base rate in epoch 1, and optimizer 1 was skipped.
C15_Witness ==
    /\ sc_T = 20
    /\ \E k \in AppliedSteps :
          sc_trace[k].epoch = 0 /\ sc_trace[k].idx = 0 /\ sc_trace[k].lr = << 1, 2 >>
    /\ \E k \in AppliedSteps :
          sc_trace[k].epoch = 1 /\ sc_trace[k].idx = 0 /\ sc_trace[k].lr = << 1, 1 >>
    /\ \E k \in 1 .. Len(sc_trace) :
          sc_trace[k].epoch = 1 /\ sc_trace[k].idx = 1 /\ ~sc_trace[k].applied

\* The rate of a step at epoch e of T as a function of e and T alone, as a
\* multiple <<num, den>> of the base rate.
RateOf(e, T) ==
    IF e < T \div 10 THEN << e + 1, T \div 10 >>
    ELSE IF e < T \div 2 THEN << 1, 1 >>
    ELSE << T - e, T - T \div 2 >>

\* C16: every step applied at an epoch e with T \div 10 <= e < T \div 2 runs
\* at the base rate, for optimizer 0 after its warm-up and for optimizer 1
\* from its first step; in every phase the rate of a step is a function of
\* (e, T, base rate), whatever steps were applied before, for every T >= 1
\* and any number of batches per epoch.
C16_ConstantPhaseAtBaseRate ==
    \A k \in AppliedSteps :
        LET c == sc_trace[k]
        IN  /\ (sc_T \div 10 <= c.epoch /\ c.epoch < sc_T \div 2) => c.lr[1] = c.lr[2]
            /\ c.lr[1] * RateOf(c.epoch, sc_T)[2] = RateOf(c.epoch, sc_T)[1] * c.lr[2]

\* T = 20, two batches per epoch: optimizer 0 stepped at the base rate in
\* epoch 5, after its warm-up, and optimizer 1 at the base rate in epoch 7,
\* its first epoch.
C16_Witness ==
    /\ sc_T = 20
    /\ sc_batches = 2
    /\ \E k \in AppliedSteps :
          sc_trace[k].epoch = 5 /\ sc_trace[k].idx = 0 /\ sc_trace[k].lr = << 1, 1 >>
    /\ \E k \in AppliedSteps :
          /\ sc_trace[k].epoch = 7 /\ sc_trace[k].idx = 1 /\ sc_trace[k].lr = << 1, 1 >>
          /\ \A j \in 1 .. (k - 1) : sc_trace[j].applied => sc_trace[j].idx = 0
    /\ sc_steps[2] >= 2

\* ------------------------------------------- claims: best model of train()
\* C17: best_model is replaced only when it is None or the epoch's
\* validation loss is strictly lower than the one recorded; epoch 0 is
\* always recorded, and after the epochs completed so far best_model holds
\* the smallest epoch index whose validation loss is the minimum (a later
\* epoch with an equal loss does not replace it), with the loss and the
\* accuracy of that same epoch.
C17_BestIsFirstMinimum ==
    /\ []( (tr_fn = "train" /\ tr_hist # << >>) =>
              /\ tr_best_model # None
              /\ LET b == tr_best_model[1].Epoch + 1
                 IN  /\ b \in 1 .. Len(tr_hist)
                     /\ \A k \in 1 .. Len(tr_hist) :
                           ~LossLess(tr_hist[k].Loss, tr_hist[b].Loss)
                     /\ \A k \in 1 .. (b - 1) :
                           LossLess(tr_hist[b].Loss, tr_hist[k].Loss)
                     /\ tr_best_model[1].Loss = tr_hist[b].Loss
                     /\ tr_best_model[1].Accuracy = tr_hist[b].Accuracy )
    /\ [][ (tr_fn = "train" /\ tr_fn' = "train" /\ tr_best_model' # tr_best_model) =>
              /\ tr_best_model' # None
              /\ tr_best_model'[1].Epoch = tr_epoch
              /\ \/ tr_best_model = None
                 \/ LossLess(tr_val_loss, tr_best_model[1].Loss) ]_vars

\* Two epochs ended with the same validation loss and different accuracies;
\* best_model is still the one of epoch 0.
C17_Witness ==
    /\ tr_fn = "train"
    /\ Len(tr_hist) = 2
    /\ ~LossLess(tr_hist[1].Loss, tr_hist[2].Loss)
    /\ ~LossLess(tr_hist[2].Loss, tr_hist[1].Loss)
    /\ tr_hist[1].Accuracy # tr_hist[2].Accuracy
    /\ tr_best_model # None
    /\ tr_best_model[1].Epoch = 0
    /\ tr_best_model[1].Accuracy = tr_hist[1].Accuracy

====
